---- MODULE Spec2Model ----
(***************************************************************************)
(* Model of the process address-space manager (crate mm): MmStruct,        *)
(* VmAreaStruct, the identifier counter MM_UNIQUE_ID, and deep_dup, the    *)
(* whole-address-space duplication used on fork.                           *)
(*                                                                         *)
(* The page-table backend (crate page_table), the physical-page allocator  *)
(* (crate axalloc) and virt_to_phys (crate axhal) are collaborators whose  *)
(* code is not part of the sources modelled here; they are modelled from   *)
(* the interface description (sections 2, 6 and 7 of the specification).   *)
(***************************************************************************)
EXTENDS Integers, Sequences, FiniteSets, TLC

\* ------------------------------------------------------------------ bounds
\* Address units per page (the model's PAGE_SIZE); an address is page-aligned
\* iff it is a multiple of PageBytes.
PageBytes == 2
\* Number of virtual pages of a user address space.
NumVPages == 2
\* Number of physical frames the allocator can hand out.
NumFrames == 8
\* Number of address spaces that may be built (finished or in flight).
MaxSpaces == 3
\* Number of caller operations (everything except new / deep_dup).
MaxOps == 3
\* Number of tasks spawned, and of later switches to tasks already running.
MaxTasks == 2
MaxResched == 2
\* Highest stack base, longest slice (in elements) and longest string pushed.
StackTop == 8
MaxElems == 2
MaxStrLen == 2

Ctx == {"c1", "c2"}
Bytes == {0, 1}

\* ------------------------------------------------------- program constants
VM_NONE == 0
VM_READ == 1
VM_WRITE == 2
VM_EXEC == 4
VM_LOCKED == 8192

\* MappingFlags handed to the backend (READ | WRITE | EXECUTE | USER).
MF_READ == "READ"
MF_WRITE == "WRITE"
MF_EXECUTE == "EXECUTE"
MF_USER == "USER"

\* ------------------------------------------------------------- addresses
VLimit == NumVPages * PageBytes
VAddrs == 0 .. (VLimit - 1)
IsAligned(a) == a % PageBytes = 0
VPages == {a \in VAddrs : IsAligned(a)}
Frames == 1 .. NumFrames

\* Kernel direct map: frame k has physical address k * PageBytes and kernel
\* virtual address PhysVirtOffset + k * PageBytes.
PhysVirtOffset == (NumFrames + 1) * PageBytes
FramePhys(k) == k * PageBytes
FrameKVirt(k) == PhysVirtOffset + FramePhys(k)
virt_to_phys(kva) == kva - PhysVirtOffset
FrameOfKVirt(kva) == virt_to_phys(kva) \div PageBytes

\* ------------------------------------------------------- ordered maps
\* A BTreeMap is a function whose domain is its key set.
EmptyMap == << >>
MapInsert(m, k, v) == [x \in (DOMAIN m) \cup {k} |-> IF x = k THEN v ELSE m[x]]
MapValues(m) == {m[x] : x \in DOMAIN m}
MinOf(S) == CHOOSE x \in S : \A y \in S : x <= y

\* ------------------------------------------------------------ VMA values
NoFile == 0

VmAreaStruct_new(vm_start, vm_end, vm_pgoff, vm_file, vm_flags) ==
    [vm_start |-> vm_start, vm_end |-> vm_end, vm_pgoff |-> vm_pgoff,
     vm_file |-> vm_file, vm_flags |-> vm_flags]

\* #[derive(Clone)]: every field is cloned; cloning the OnceCell<Arc<..>> clones
\* the Arc, i.e. yields a handle to the same file object.
VmaCloneDropsFile(vma) ==
    [vm_start |-> vma.vm_start, vm_end |-> vma.vm_end, vm_pgoff |-> vma.vm_pgoff,
     vm_file |-> NoFile, vm_flags |-> vma.vm_flags]
VmAreaStruct_clone(vma) ==
    [vm_start |-> vma.vm_start, vm_end |-> vma.vm_end, vm_pgoff |-> vma.vm_pgoff,
     vm_file |-> vma.vm_file, vm_flags |-> vma.vm_flags]

\* ------------------------------------------------- page-table backend
NoPgd == [root |-> 0, leaf |-> {}, ent |-> EmptyMap]
PagesPerTable == NumVPages
RegionOf(va) == va \div (PageBytes * PagesPerTable)
RangePages(va, len) == {p \in VPages : va <= p /\ p < va + len}
RangeOk(va, len) == IsAligned(va) /\ IsAligned(len) /\ len > 0 /\ va + len <= VLimit

\* pgd_alloc(): a fresh, empty table whose root is one frame.
pgd_alloc(nf) == [root |-> FramePhys(nf), leaf |-> {}, ent |-> EmptyMap]

\* PageTable::map_region(va, pa, len, flags, allow_overwrite) with the frame
\* counter nf; the result is [res, pgd, nf].
PT_map_region(pt, nf, va, pa, len, flags, overwrite) ==
    LET pages == RangePages(va, len)
        need  == {RegionOf(p) : p \in pages} \ pt.leaf
    IN  IF ~(RangeOk(va, len) /\ IsAligned(pa))
        THEN [res |-> "NotAligned", pgd |-> pt, nf |-> nf]
        ELSE IF nf + Cardinality(need) > NumFrames + 1
        THEN [res |-> "NoMemory", pgd |-> pt, nf |-> nf]
        ELSE IF ~overwrite /\ pages \cap DOMAIN pt.ent # {}
        THEN [res |-> "AlreadyMapped", pgd |-> pt, nf |-> nf]
        ELSE [res |-> "Ok",
              pgd |-> [root |-> pt.root,
                       leaf |-> pt.leaf \cup need,
                       ent  |-> [p \in (DOMAIN pt.ent) \cup pages |->
                                   IF p \in pages
                                   THEN [pa |-> pa + (p - va), flags |-> flags]
                                   ELSE pt.ent[p]]],
              nf |-> nf + Cardinality(need)]

\* PageTable::unmap_region(va, len); the result is [res, pgd].
PT_unmap_region(pt, va, len) ==
    LET pages == RangePages(va, len)
    IN  IF ~RangeOk(va, len)
        THEN [res |-> "NotAligned", pgd |-> pt]
        ELSE IF ~(pages \subseteq DOMAIN pt.ent)
        THEN [res |-> "NotMapped", pgd |-> pt]
        ELSE [res |-> "Ok",
              pgd |-> [root |-> pt.root, leaf |-> pt.leaf,
                       ent |-> [p \in (DOMAIN pt.ent) \ pages |-> pt.ent[p]]]]

\* ------------------------------------------------------------------ state
VARIABLES
    nextId,     \* MM_UNIQUE_ID
    drawn,      \* history: the ids in the order fetch_add handed them out
    spaces,     \* the MmStructs built so far, in order of completion
    mem,        \* contents of the physical frames
    nextFrame,  \* the allocator: frames nextFrame .. NumFrames are free
    ctx,        \* per execution context: position inside new() / deep_dup()
    panicked,   \* an unwrap() failed: the kernel has stopped
    ops,        \* number of caller operations performed
    last,       \* the call (or step) the last transition completed
    rt,         \* history, per space: progress of a map / unmap / map round trip
    thr,        \* per thread: position inside a call that takes the table lock
    rq,         \* the tasks made by spawn_task / spawn_task_raw and their closures
    us          \* the UserStack under construction and the memory it writes

vars == <<nextId, drawn, spaces, mem, nextFrame, ctx, panicked, ops, last, rt,
          thr, rq, us>>
\* The state outside the address-space structures.
aux == <<thr, rq, us>>

Thr == {"t1", "t2"}
IdleThr == [pc |-> "idle", s |-> 0, op |-> "none", arg |-> << >>, ret |-> "none"]
NoRq == [tasks |-> << >>, boxes |-> << >>, locked |-> FALSE, log |-> << >>,
         resched |-> 0]
\* The variables of the address-space model.
mmvars == <<nextId, drawn, spaces, mem, nextFrame, ctx, panicked, ops, last, rt>>
NoStack == [made |-> FALSE]

\* snap is history: the source (and the contents of its pages) as deep_dup
\* found it when it was called.
NoSnap == [mm |-> 0, pages |-> EmptyMap]
IdleCtx == [pc |-> "idle", src |-> 0, id |-> 0, vmas |-> EmptyMap,
            mapped |-> EmptyMap, pgd |-> NoPgd, todo |-> {}, snap |-> NoSnap]
NoEvent == [op |-> "none"]
ZeroPage == [o \in 0 .. (PageBytes - 1) |-> 0]

Slots == 1 .. Len(spaces)
InFlight == Cardinality({c \in Ctx : ctx[c].pc # "idle"})
CanBuild == Len(spaces) + InFlight < MaxSpaces
SomeIdle == \E c \in Ctx : ctx[c].pc = "idle"
\* deep_dup holds &self for the whole call, so no &mut access to the source
\* can happen meanwhile.
NotBorrowed(s) == \A c \in Ctx : ctx[c].pc = "dup_loop" => ctx[c].src # s

\* SpinNoIrq: the threads inside the critical section of space s's table lock
\* (between lock() returning and the guard being dropped).
Holders(s) == {t \in Thr : thr[t].pc \in {"held", "drop"} /\ thr[t].s = s}
LockFree(s) == Holders(s) = {}

\* rt[s] follows the calls on space s: stage 1 after map_region(va, pa1, len)
\* with page-aligned arguments, stage 2 after unmap_region(va, len) directly
\* following it, stage 3 after map_region(va, pa2, len), pa2 # pa1, directly
\* following that; rets are the results returned so far.
NoRt == [stage |-> 0, va |-> 0, len |-> 0, pa1 |-> 0, pa2 |-> 0, rets |-> << >>]
RtOnMap(r, va, pa, len, ret) ==
    IF ~(RangeOk(va, len) /\ IsAligned(pa)) THEN NoRt
    ELSE IF r.stage = 2 /\ r.va = va /\ r.len = len /\ pa # r.pa1
    THEN [r EXCEPT !.stage = 3, !.pa2 = pa, !.rets = Append(@, ret)]
    ELSE [stage |-> 1, va |-> va, len |-> len, pa1 |-> pa, pa2 |-> 0, rets |-> <<ret>>]
RtOnUnmap(r, va, len, ret) ==
    IF r.stage = 1 /\ r.va = va /\ r.len = len
    THEN [r EXCEPT !.stage = 2, !.rets = Append(@, ret)]
    ELSE NoRt

\* The allocator is shared with the rest of the kernel: at start it is either
\* untouched or down to its last frame.
InitFrames == {1, NumFrames}

Init ==
    /\ nextId = 1
    /\ drawn = << >>
    /\ spaces = << >>
    /\ mem = [k \in Frames |-> ZeroPage]
    /\ nextFrame \in InitFrames
    /\ ctx = [c \in Ctx |-> IdleCtx]
    /\ panicked = FALSE
    /\ ops = 0
    /\ last = NoEvent
    /\ rt = << >>
    /\ thr = [t \in Thr |-> IdleThr]
    /\ rq = NoRq
    /\ us = NoStack

\* AtomicUsize::fetch_add(1, SeqCst): returns the old value, stores old + 1.
FetchAddBroken(n) == [ret |-> n, next |-> n]
MM_UNIQUE_ID_fetch_add(n) == [ret |-> n, next |-> n + 1]

Panic(c, why) ==
    /\ panicked' = TRUE
    /\ last' = [op |-> "panic", ctx |-> c, why |-> why]

\* ------------------------------------------------------------ MmStruct::new
\* The struct literal evaluates its fields in order: the id is drawn first.
NewDrawId(c) ==
    /\ UNCHANGED aux
    /\ UNCHANGED rt
    /\ ~panicked /\ ctx[c].pc = "idle" /\ CanBuild
    /\ LET r == MM_UNIQUE_ID_fetch_add(nextId)
       IN  /\ nextId' = r.next
           /\ drawn' = Append(drawn, r.ret)
           /\ ctx' = [ctx EXCEPT ![c] = [IdleCtx EXCEPT !.pc = "new_pgd", !.id = r.ret]]
    /\ last' = NoEvent
    /\ UNCHANGED <<spaces, mem, nextFrame, panicked, ops>>

MmStruct_new(id, pgd) ==
    [id |-> id, vmas |-> EmptyMap, pgd |-> pgd, brk |-> 0,
     mapped |-> EmptyMap, locked_vm |-> 0, origin |-> 0]

NewFinish(c) ==
    /\ UNCHANGED aux
    /\ ~panicked /\ ctx[c].pc = "new_pgd"
    /\ IF nextFrame > NumFrames
       THEN /\ Panic(c, "pgd_alloc")
            /\ UNCHANGED <<nextId, drawn, spaces, mem, nextFrame, ctx, ops, rt>>
       ELSE /\ spaces' = Append(spaces, MmStruct_new(ctx[c].id, pgd_alloc(nextFrame)))
            /\ rt' = Append(rt, NoRt)
            /\ nextFrame' = nextFrame + 1
            /\ ctx' = [ctx EXCEPT ![c] = IdleCtx]
            /\ last' = [op |-> "new", ctx |-> c, dst |-> Len(spaces) + 1]
            /\ UNCHANGED <<nextId, drawn, mem, panicked, ops>>

\* ------------------------------------------------------- MmStruct::deep_dup
RWXU == {MF_READ, MF_WRITE, MF_EXECUTE, MF_USER}

\* for vma in self.vmas.values() { vmas.insert(vma.vm_start, vma.clone()) }
\* (values() walks the source in ascending key order).
RECURSIVE deep_dup_vmas_from(_, _, _)
deep_dup_vmas_from(vmas, keys, acc) ==
    IF keys = {} THEN acc
    ELSE LET k == MinOf(keys)
         IN  deep_dup_vmas_from(vmas, keys \ {k},
                 MapInsert(acc, vmas[k].vm_start, VmAreaStruct_clone(vmas[k])))

\* Variants of deep_dup_vmas with one slip each: the first VMA is left out;
\* each clone is stored under its end address.
DupVmasDropsFirst(vmas) ==
    IF DOMAIN vmas = {} THEN EmptyMap
    ELSE deep_dup_vmas_from(vmas, (DOMAIN vmas) \ {MinOf(DOMAIN vmas)}, EmptyMap)
DupVmasKeyedByEnd(vmas) ==
    [e \in {vmas[k].vm_end : k \in DOMAIN vmas} |->
        VmAreaStruct_clone(vmas[MinOf({k \in DOMAIN vmas : vmas[k].vm_end = e})])]
deep_dup_vmas(vmas) == deep_dup_vmas_from(vmas, DOMAIN vmas, EmptyMap)

\* core::ptr::copy_nonoverlapping(old_page, new_page, n): the first n bytes of
\* the destination frame become those of the source frame.
CopyBytes(memv, from, to, n) ==
    [memv EXCEPT ![to] = [o \in 0 .. (PageBytes - 1) |->
                            IF o < n THEN memv[from][o] ELSE @[o]]]
CopyOneByteShort(memv, old_page, new_page, n) ==
    CopyBytes(memv, FrameOfKVirt(old_page), FrameOfKVirt(new_page), n - 1)
copy_nonoverlapping(memv, old_page, new_page, n) ==
    CopyBytes(memv, FrameOfKVirt(old_page), FrameOfKVirt(new_page), n)

\* Variants of deep_dup_page with one slip each: the ledger records the source's
\* page; the mapping follows a read-only intent; an allocation failure skips
\* the page instead of stopping.
DupPageSharesPage(memv, nf, pgd, mapped, va, old_page) ==
    IF nf > NumFrames
    THEN [res |-> "AllocFailed", mem |-> memv, pgd |-> pgd, mapped |-> mapped, nf |-> nf]
    ELSE LET new_page == FrameKVirt(nf)
             mem1 == copy_nonoverlapping(memv, old_page, new_page, PageBytes)
             r == PT_map_region(pgd, nf + 1, va, virt_to_phys(old_page), PageBytes,
                                RWXU, TRUE)
         IN  IF r.res # "Ok"
             THEN [res |-> "MapFailed", mem |-> mem1, pgd |-> r.pgd,
                   mapped |-> mapped, nf |-> r.nf]
             ELSE [res |-> "Ok", mem |-> mem1, pgd |-> r.pgd,
                   mapped |-> MapInsert(mapped, va, old_page), nf |-> r.nf]
DupPageReadOnly(memv, nf, pgd, mapped, va, old_page) ==
    IF nf > NumFrames
    THEN [res |-> "AllocFailed", mem |-> memv, pgd |-> pgd, mapped |-> mapped, nf |-> nf]
    ELSE LET new_page == FrameKVirt(nf)
             mem1 == copy_nonoverlapping(memv, old_page, new_page, PageBytes)
             r == PT_map_region(pgd, nf + 1, va, virt_to_phys(new_page), PageBytes,
                                {MF_READ, MF_USER}, TRUE)
         IN  IF r.res # "Ok"
             THEN [res |-> "MapFailed", mem |-> mem1, pgd |-> r.pgd,
                   mapped |-> mapped, nf |-> r.nf]
             ELSE [res |-> "Ok", mem |-> mem1, pgd |-> r.pgd,
                   mapped |-> MapInsert(mapped, va, new_page), nf |-> r.nf]
DupPageSkipsOnFailure(memv, nf, pgd, mapped, va, old_page) ==
    IF nf > NumFrames
    THEN [res |-> "Ok", mem |-> memv, pgd |-> pgd, mapped |-> mapped, nf |-> nf]
    ELSE LET new_page == FrameKVirt(nf)
             mem1 == copy_nonoverlapping(memv, old_page, new_page, PageBytes)
             r == PT_map_region(pgd, nf + 1, va, virt_to_phys(new_page), PageBytes,
                                RWXU, TRUE)
         IN  IF r.res # "Ok"
             THEN [res |-> "MapFailed", mem |-> mem1, pgd |-> r.pgd,
                   mapped |-> mapped, nf |-> r.nf]
             ELSE [res |-> "Ok", mem |-> mem1, pgd |-> r.pgd,
                   mapped |-> MapInsert(mapped, va, new_page), nf |-> r.nf]
\* One iteration of the loop over self.mapped, for the entry (va, old_page):
\* allocate, copy, map into the new table, record in the new ledger. The result
\* is [res, mem, pgd, mapped, nf].
deep_dup_page(memv, nf, pgd, mapped, va, old_page) ==
    IF nf > NumFrames
    THEN [res |-> "AllocFailed", mem |-> memv, pgd |-> pgd, mapped |-> mapped, nf |-> nf]
    ELSE LET new_page == FrameKVirt(nf)
             mem1 == copy_nonoverlapping(memv, old_page, new_page, PageBytes)
             pa == virt_to_phys(new_page)
             r == PT_map_region(pgd, nf + 1, va, pa, PageBytes, RWXU, TRUE)
         IN  IF r.res # "Ok"
             THEN [res |-> "MapFailed", mem |-> mem1, pgd |-> r.pgd,
                   mapped |-> mapped, nf |-> r.nf]
             ELSE [res |-> "Ok", mem |-> mem1, pgd |-> r.pgd,
                   mapped |-> MapInsert(mapped, va, new_page), nf |-> r.nf]

DupResultFreshBrk(src, id, pgd, vmas, mapped, origin) ==
    [id |-> id, vmas |-> vmas, pgd |-> pgd, brk |-> 0,
     mapped |-> mapped, locked_vm |-> src.locked_vm, origin |-> origin]
DupResultSharesPgd(src, id, pgd, vmas, mapped, origin) ==
    [id |-> id, vmas |-> vmas, pgd |-> src.pgd, brk |-> src.brk,
     mapped |-> mapped, locked_vm |-> src.locked_vm, origin |-> origin]
\* The struct literal that ends deep_dup (origin is history: the slot copied).
deep_dup_result(src, id, pgd, vmas, mapped, origin) ==
    [id |-> id, vmas |-> vmas, pgd |-> pgd, brk |-> src.brk,
     mapped |-> mapped, locked_vm |-> src.locked_vm, origin |-> origin]

\* The calls deep_dup makes while it holds a page-table lock: the new table is
\* a local (let mut pgd) until the struct literal wraps it in SpinNoIrq::new,
\* and the source's table is not used, so none.
DupLocksWholeLoop == {"pgd_alloc", "alloc_pages", "copy_nonoverlapping", "map_region"}
deep_dup_locked_calls == {}

\* let mut pgd = pgd_alloc(); and the loop that clones the VMAs.
DupBegin(c, s) ==
    /\ UNCHANGED aux
    /\ UNCHANGED rt
    /\ ~panicked /\ ctx[c].pc = "idle" /\ CanBuild /\ s \in Slots
    /\ IF nextFrame > NumFrames
       THEN /\ Panic(c, "pgd_alloc")
            /\ UNCHANGED <<nextId, drawn, spaces, mem, nextFrame, ctx, ops>>
       ELSE /\ ctx' = [ctx EXCEPT ![c] =
                          [pc |-> "dup_loop", src |-> s, id |-> 0,
                           vmas |-> deep_dup_vmas(spaces[s].vmas),
                           mapped |-> EmptyMap,
                           pgd |-> pgd_alloc(nextFrame),
                           todo |-> DOMAIN spaces[s].mapped,
                           snap |-> [mm |-> spaces[s],
                                     pages |-> [va \in DOMAIN spaces[s].mapped |->
                                         mem[FrameOfKVirt(spaces[s].mapped[va])]]]]]
            /\ nextFrame' = nextFrame + 1
            /\ last' = NoEvent
            /\ UNCHANGED <<nextId, drawn, spaces, mem, panicked, ops>>

\* One iteration of for (va, dva) in &self.mapped (ascending keys); either
\* unwrap() stops the kernel.
DupPage(c) ==
    /\ UNCHANGED aux
    /\ UNCHANGED rt
    /\ ~panicked /\ ctx[c].pc = "dup_loop" /\ ctx[c].todo # {}
    /\ LET va == MinOf(ctx[c].todo)
           r == deep_dup_page(mem, nextFrame, ctx[c].pgd, ctx[c].mapped, va,
                              spaces[ctx[c].src].mapped[va])
       IN  /\ mem' = r.mem
           /\ nextFrame' = r.nf
           /\ IF r.res = "Ok"
              THEN /\ ctx' = [ctx EXCEPT ![c].pgd = r.pgd, ![c].mapped = r.mapped,
                                         ![c].todo = @ \ {va}]
                   /\ last' = NoEvent
                   /\ UNCHANGED panicked
              ELSE /\ Panic(c, r.res)
                   /\ UNCHANGED ctx
    /\ UNCHANGED <<nextId, drawn, spaces, ops>>

\* The loop is over: draw the id and build the struct.
DupFinish(c) ==
    /\ UNCHANGED aux
    /\ ~panicked /\ ctx[c].pc = "dup_loop" /\ ctx[c].todo = {}
    /\ LET r == MM_UNIQUE_ID_fetch_add(nextId)
       IN  /\ nextId' = r.next
           /\ drawn' = Append(drawn, r.ret)
           /\ spaces' = Append(spaces,
                  deep_dup_result(spaces[ctx[c].src], r.ret, ctx[c].pgd,
                                  ctx[c].vmas, ctx[c].mapped, ctx[c].src))
    /\ rt' = Append(rt, NoRt)
    /\ ctx' = [ctx EXCEPT ![c] = IdleCtx]
    /\ last' = [op |-> "deep_dup", ctx |-> c, src |-> ctx[c].src, dst |-> Len(spaces) + 1]
    /\ UNCHANGED <<mem, nextFrame, panicked, ops>>

\* ------------------------------------- MmStruct::map_region / unmap_region
\* Inputs the callers are modelled to pass: <<va, pa, len, uflags>>.
MapArgs ==
    { <<0, FramePhys(1), PageBytes, VM_READ>>,
      <<0, FramePhys(2), PageBytes, VM_READ + VM_WRITE>>,
      <<0, FramePhys(1), 2 * PageBytes, VM_NONE>>,
      <<0, FramePhys(2), 2 * PageBytes, VM_READ + VM_WRITE + VM_EXEC>>,
      <<1, FramePhys(1), PageBytes, VM_READ>> }
UnmapArgs ==
    { <<0, PageBytes>>, <<0, 2 * PageBytes>>, <<1, PageBytes>> }

\* The flags map_region hands to the backend for the caller's intent _uflags.
map_region_flags(uflags) == {MF_READ, MF_WRITE, MF_EXECUTE, MF_USER}

\* The result is [ret, pgd, nf, calls]: calls lists the backend calls made.
MmStruct_map_region(mm, nf, va, pa, len, uflags) ==
    LET call == [fn |-> "map_region", va |-> va, pa |-> pa, len |-> len,
                 flags |-> map_region_flags(uflags), overwrite |-> TRUE]
        r == PT_map_region(mm.pgd, nf, call.va, call.pa, call.len,
                           call.flags, call.overwrite)
    IN  [ret |-> r.res, pgd |-> r.pgd, nf |-> r.nf, calls |-> <<call>>]

\* Variants of unmap_region with one slip each: a failure is reported as
\* success; the backend is not called at all.
MmUnmapSwallowsError(mm, va, len) ==
    LET call == [fn |-> "unmap_region", va |-> va, len |-> len]
        r == PT_unmap_region(mm.pgd, call.va, call.len)
    IN  [ret |-> "Ok", pgd |-> r.pgd, calls |-> <<call>>]
MmUnmapNotDelegated(mm, va, len) ==
    [ret |-> "Ok", pgd |-> mm.pgd,
     calls |-> <<[fn |-> "unmap_region", va |-> va, len |-> len]>>]
MmStruct_unmap_region(mm, va, len) ==
    LET call == [fn |-> "unmap_region", va |-> va, len |-> len]
        r == PT_unmap_region(mm.pgd, call.va, call.len)
    IN  [ret |-> r.res, pgd |-> r.pgd, calls |-> <<call>>]

CallerOp == ~panicked /\ SomeIdle /\ ops < MaxOps

\* self.pgd is an Arc<SpinNoIrq<PageTable>>: a table lives in the frames under
\* its root, so a call through one handle changes the table seen through every
\* handle to the same root.
StoreTable(sp, s, pgd) ==
    [u \in 1 .. Len(sp) |->
        IF sp[u].pgd.root = sp[s].pgd.root THEN [sp[u] EXCEPT !.pgd = pgd] ELSE sp[u]]

MapRegion(s, a) ==
    /\ UNCHANGED aux
    /\ CallerOp /\ s \in Slots /\ LockFree(s)
    /\ LET r == MmStruct_map_region(spaces[s], nextFrame, a[1], a[2], a[3], a[4])
       IN  /\ spaces' = StoreTable(spaces, s, r.pgd)
           /\ nextFrame' = r.nf
           /\ last' = [op |-> "map_region", s |-> s, va |-> a[1], pa |-> a[2],
                       len |-> a[3], uflags |-> a[4], ret |-> r.ret, calls |-> r.calls]
           /\ rt' = [rt EXCEPT ![s] = RtOnMap(@, a[1], a[2], a[3], r.ret)]
    /\ ops' = ops + 1
    /\ UNCHANGED <<nextId, drawn, mem, ctx, panicked>>

UnmapRegion(s, a) ==
    /\ UNCHANGED aux
    /\ CallerOp /\ s \in Slots /\ LockFree(s)
    /\ LET r == MmStruct_unmap_region(spaces[s], a[1], a[2])
       IN  /\ spaces' = StoreTable(spaces, s, r.pgd)
           /\ last' = [op |-> "unmap_region", s |-> s, va |-> a[1], len |-> a[2],
                       ret |-> r.ret, calls |-> r.calls]
           /\ rt' = [rt EXCEPT ![s] = RtOnUnmap(@, a[1], a[2], r.ret)]
    /\ ops' = ops + 1
    /\ UNCHANGED <<nextId, drawn, mem, nextFrame, ctx, panicked>>

\* ----------------------------------------------------- MmStruct::root_paddr
\* self.pgd.lock().root_paddr().into()
MmStruct_root_paddr(mm) == mm.pgd.root

RootPaddr(s) ==
    /\ UNCHANGED aux
    /\ CallerOp /\ s \in Slots /\ LockFree(s)
    /\ last' = [op |-> "root_paddr", s |-> s, ret |-> MmStruct_root_paddr(spaces[s])]
    /\ ops' = ops + 1
    /\ UNCHANGED <<nextId, drawn, spaces, mem, nextFrame, ctx, panicked, rt>>

\* ------------------------------------------------ MmStruct::brk / set_brk
BrkArgs == {PageBytes, VLimit}
MmStruct_brk(mm) == mm.brk
MmStruct_set_brk(mm, brk) == [mm EXCEPT !.brk = brk]

SetBrk(s, b) ==
    /\ UNCHANGED aux
    /\ UNCHANGED rt
    /\ CallerOp /\ s \in Slots /\ NotBorrowed(s)
    /\ spaces' = [spaces EXCEPT ![s] = MmStruct_set_brk(@, b)]
    /\ last' = [op |-> "set_brk", s |-> s, brk |-> b]
    /\ ops' = ops + 1
    /\ UNCHANGED <<nextId, drawn, mem, nextFrame, ctx, panicked>>

\* --------------------------------------------------- callers' bookkeeping
\* The VMA set, the ledger and locked_vm are pub fields written by the mmap,
\* fault and mlock layers (not part of this crate). Callers are modelled as the
\* specification describes them: a VMA is stored under its own start, and a
\* ledger entry is a freshly allocated page mapped at a page-aligned address.
\* <<vm_start, vm_end, vm_pgoff, vm_file, vm_flags>>
VmaArgs ==
    { <<0, PageBytes, 0, NoFile, VM_READ>>,
      <<0, VLimit, PageBytes, 1, VM_READ + VM_WRITE>>,
      <<PageBytes, VLimit, 0, NoFile, VM_READ + VM_EXEC + VM_LOCKED>> }

InsertVma(s, a) ==
    /\ UNCHANGED aux
    /\ UNCHANGED rt
    /\ CallerOp /\ s \in Slots /\ NotBorrowed(s)
    /\ LET vma == VmAreaStruct_new(a[1], a[2], a[3], a[4], a[5])
       IN  spaces' = [spaces EXCEPT ![s].vmas = MapInsert(@, vma.vm_start, vma)]
    /\ last' = NoEvent
    /\ ops' = ops + 1
    /\ UNCHANGED <<nextId, drawn, mem, nextFrame, ctx, panicked>>

SetLockedVm(s, n) ==
    /\ UNCHANGED aux
    /\ UNCHANGED rt
    /\ CallerOp /\ s \in Slots /\ NotBorrowed(s)
    /\ spaces[s].locked_vm # n
    /\ spaces' = [spaces EXCEPT ![s].locked_vm = n]
    /\ last' = NoEvent
    /\ ops' = ops + 1
    /\ UNCHANGED <<nextId, drawn, mem, nextFrame, ctx, panicked>>

\* A fault materializes the page at va: allocate a page, map it through
\* map_region, record it in the ledger.
MapPage(s, va) ==
    /\ UNCHANGED aux
    /\ CallerOp /\ s \in Slots /\ NotBorrowed(s) /\ LockFree(s)
    /\ va \notin DOMAIN spaces[s].mapped
    /\ nextFrame <= NumFrames
    /\ LET page == FrameKVirt(nextFrame)
           r == MmStruct_map_region(spaces[s], nextFrame + 1, va, virt_to_phys(page),
                                    PageBytes, VM_READ + VM_WRITE)
       IN  /\ r.ret = "Ok"
           /\ spaces' = [StoreTable(spaces, s, r.pgd) EXCEPT
                              ![s].mapped = MapInsert(@, va, page)]
           /\ nextFrame' = r.nf
    /\ rt' = [rt EXCEPT ![s] = NoRt]
    /\ last' = NoEvent
    /\ ops' = ops + 1
    /\ UNCHANGED <<nextId, drawn, mem, ctx, panicked>>

\* The process stores byte b at offset o of its materialized page va. The
\* source of a deep_dup in progress is not written (the caller of fork owns it).
WritePage(s, va, o, b) ==
    /\ UNCHANGED aux
    /\ UNCHANGED rt
    /\ CallerOp /\ s \in Slots /\ NotBorrowed(s)
    /\ va \in DOMAIN spaces[s].mapped
    /\ LET k == FrameOfKVirt(spaces[s].mapped[va])
       IN  /\ mem[k][o] # b
           /\ mem' = [mem EXCEPT ![k][o] = b]
    /\ last' = [op |-> "write", s |-> s, va |-> va]
    /\ ops' = ops + 1
    /\ UNCHANGED <<nextId, drawn, spaces, nextFrame, ctx, panicked>>

\* ------------------------------------- callers that keep the preconditions
\* The mmap, munmap and fault layers as the specification requires them to
\* behave (sections 3 and 4.1): a mapping request adds a well-formed VMA that
\* meets no VMA of the space, a fault materializes a page only inside a VMA,
\* and an unmap removes a VMA together with the pages materialized inside it.
InVma(vma, va) == vma.vm_start <= va /\ va < vma.vm_end
VmaWellFormed(a) == IsAligned(a[1]) /\ IsAligned(a[2]) /\ a[1] < a[2] /\ a[2] <= VLimit
Disjoint(v, w) == v.vm_end <= w.vm_start \/ w.vm_end <= v.vm_start

Mmap(s, a) ==
    /\ s \in Slots /\ VmaWellFormed(a)
    /\ \A k \in DOMAIN spaces[s].vmas :
          Disjoint(spaces[s].vmas[k], VmAreaStruct_new(a[1], a[2], a[3], a[4], a[5]))
    /\ InsertVma(s, a)

FaultIn(s, va) ==
    /\ s \in Slots
    /\ \E k \in DOMAIN spaces[s].vmas : InVma(spaces[s].vmas[k], va)
    /\ MapPage(s, va)

\* unmap_region of every materialized page of the table, one call per page;
\* the result is the table left behind.
RECURSIVE UnmapPages(_, _)
UnmapPages(mm, pages) ==
    IF pages = {} THEN mm.pgd
    ELSE LET va == MinOf(pages)
             r == MmStruct_unmap_region(mm, va, PageBytes)
         IN  UnmapPages([mm EXCEPT !.pgd = r.pgd], pages \ {va})

Munmap(s, k) ==
    /\ UNCHANGED aux
    /\ CallerOp /\ s \in Slots /\ NotBorrowed(s) /\ LockFree(s)
    /\ k \in DOMAIN spaces[s].vmas
    /\ LET gone == {va \in DOMAIN spaces[s].mapped : InVma(spaces[s].vmas[k], va)}
           pgd == UnmapPages(spaces[s], gone)
       IN  spaces' = [StoreTable(spaces, s, pgd) EXCEPT
                        ![s].vmas = [j \in (DOMAIN @) \ {k} |-> @[j]],
                        ![s].mapped = [va \in (DOMAIN @) \ gone |-> @[va]]]
    /\ rt' = [rt EXCEPT ![s] = NoRt]
    /\ last' = NoEvent
    /\ ops' = ops + 1
    /\ UNCHANGED <<nextId, drawn, mem, nextFrame, ctx, panicked>>

\* ----------------------- map_region / unmap_region / root_paddr, step by step
\* Each of the three methods is self.pgd.lock().<call>(..): spin for the lock,
\* enter, make the one call, drop the guard at the end of the statement.
\* <<method, arguments>>
LockReqs ==
    { <<"map_region", <<0, FramePhys(1), PageBytes, VM_READ>>>>,
      <<"unmap_region", <<0, PageBytes>>>>,
      <<"root_paddr", << >>>> }

\* What the call made under the lock returns and leaves: [ret, pgd, nf].
LockedCall(mm, nf, op, a) ==
    CASE op = "map_region" ->
           LET r == MmStruct_map_region(mm, nf, a[1], a[2], a[3], a[4])
           IN  [ret |-> r.ret, pgd |-> r.pgd, nf |-> r.nf]
      [] op = "unmap_region" ->
           LET r == MmStruct_unmap_region(mm, a[1], a[2])
           IN  [ret |-> r.ret, pgd |-> r.pgd, nf |-> nf]
      [] OTHER -> [ret |-> MmStruct_root_paddr(mm), pgd |-> mm.pgd, nf |-> nf]

LockSpin(t, s, q) ==
    /\ ~panicked /\ ops < MaxOps /\ s \in Slots /\ thr[t].pc = "idle"
    /\ thr' = [thr EXCEPT ![t] = [pc |-> "spin", s |-> s, op |-> q[1],
                                  arg |-> q[2], ret |-> "none"]]
    /\ ops' = ops + 1
    /\ last' = NoEvent
    /\ UNCHANGED <<nextId, drawn, spaces, mem, nextFrame, ctx, panicked, rt, rq, us>>

LockAcquire(t) ==
    /\ ~panicked /\ thr[t].pc = "spin" /\ LockFree(thr[t].s)
    /\ thr' = [thr EXCEPT ![t].pc = "held"]
    /\ last' = NoEvent
    /\ UNCHANGED <<nextId, drawn, spaces, mem, nextFrame, ctx, panicked, ops, rt, rq, us>>

LockBody(t) ==
    /\ ~panicked /\ thr[t].pc = "held"
    /\ LET s == thr[t].s
           r == LockedCall(spaces[s], nextFrame, thr[t].op, thr[t].arg)
       IN  /\ spaces' = StoreTable(spaces, s, r.pgd)
           /\ nextFrame' = r.nf
           /\ thr' = [thr EXCEPT ![t].pc = "drop", ![t].ret = r.ret]
           /\ rt' = [rt EXCEPT ![s] = NoRt]
    /\ last' = NoEvent
    /\ UNCHANGED <<nextId, drawn, mem, ctx, panicked, ops, rq, us>>

LockDrop(t) ==
    /\ ~panicked /\ thr[t].pc = "drop"
    /\ thr' = [thr EXCEPT ![t] = IdleThr]
    /\ last' = [op |-> "return", thread |-> t, call |-> thr[t].op, s |-> thr[t].s,
                ret |-> thr[t].ret]
    /\ UNCHANGED <<nextId, drawn, spaces, mem, nextFrame, ctx, panicked, ops, rt, rq, us>>

LockStep == \E t \in Thr : LockAcquire(t) \/ LockBody(t) \/ LockDrop(t)

\* ------------------------------------------------------------- run_queue
\* rq.tasks are the SchedInfos made so far; rq.boxes the heap cells made by
\* Box::new(f), each with the number of times its closure was called and the
\* number of times it was freed; rq.locked is the RUN_QUEUE lock; rq.log is
\* history: the calls of closures, as <<task, box>>, in order.
NoEntry == 0
Tids == {1, 2}
CtidPtrs == {0, 1}

\* Box::into_raw(Box::new(f)): a new heap cell; the result is [ptr, boxes].
Box_into_raw(boxes) ==
    [ptr |-> Len(boxes) + 1, boxes |-> Append(boxes, [calls |-> 0, frees |-> 0])]

\* spawn_task(tid, entry): a SchedInfo whose thread starts at task_entry.
spawn_task(tid, entry) ==
    [tid |-> tid, entry |-> entry, pc |-> "spawned", set_child_tid |-> 0,
     ctid_val |-> 0, unlocks |-> 0]

\* spawn_task_raw(tid, f); the result is [task, boxes].
spawn_task_raw(tid, boxes) ==
    LET b == Box_into_raw(boxes)
    IN  [task |-> spawn_task(tid, b.ptr), boxes |-> b.boxes]

\* spawn_task_raw, and the caller setting set_child_tid before the task runs.
SpawnTaskRaw(tid, ctid) ==
    /\ Len(rq.tasks) < MaxTasks
    /\ LET r == spawn_task_raw(tid, rq.boxes)
       IN  rq' = [rq EXCEPT !.tasks = Append(@, [r.task EXCEPT !.set_child_tid = ctid]),
                            !.boxes = r.boxes]
    /\ UNCHANGED <<mmvars, thr, us>>

\* spawn_task(tid, None).
SpawnTaskNone(tid, ctid) ==
    /\ Len(rq.tasks) < MaxTasks
    /\ rq' = [rq EXCEPT !.tasks =
                 Append(@, [spawn_task(tid, NoEntry) EXCEPT !.set_child_tid = ctid])]
    /\ UNCHANGED <<mmvars, thr, us>>

\* The scheduler, holding the RUN_QUEUE lock, switches to task i for the first
\* time: the thread starts at the address given to init(), task_entry.
FirstSwitch(i) ==
    /\ i \in 1 .. Len(rq.tasks) /\ rq.tasks[i].pc = "spawned" /\ ~rq.locked
    /\ rq' = [rq EXCEPT !.locked = TRUE, !.tasks[i].pc = "task_entry"]
    /\ UNCHANGED <<mmvars, thr, us>>

\* force_unlock();
TaskEntryUnlock(i) ==
    /\ i \in 1 .. Len(rq.tasks) /\ rq.tasks[i].pc = "task_entry"
    /\ rq' = [rq EXCEPT !.locked = FALSE, !.tasks[i].pc = "unlocked",
                        !.tasks[i].unlocks = @ + 1]
    /\ UNCHANGED <<mmvars, thr, us>>

\* The pointers task_entry turns back into a Box and calls:
\* if let Some(entry) = ctx.entry { Box::from_raw(entry)() }.
TaskEntryInvokesTwice(entry) == IF entry = NoEntry THEN << >> ELSE <<entry, entry>>
task_entry_invokes(entry) == IF entry = NoEntry THEN << >> ELSE <<entry>>

RECURSIVE CallAll(_, _)
CallAll(boxes, ptrs) ==
    IF ptrs = << >> THEN boxes
    ELSE CallAll([boxes EXCEPT ![Head(ptrs)].calls = @ + 1], Tail(ptrs))
RECURSIVE FreeAll(_, _)
FreeAll(boxes, ptrs) ==
    IF ptrs = << >> THEN boxes
    ELSE FreeAll([boxes EXCEPT ![Head(ptrs)].frees = @ + 1], Tail(ptrs))

\* The write through set_child_tid, then the call of the closure (if any).
TaskEntryRun(i) ==
    /\ i \in 1 .. Len(rq.tasks) /\ rq.tasks[i].pc = "unlocked"
    /\ LET t == rq.tasks[i]
           ptrs == task_entry_invokes(t.entry)
       IN  rq' = [rq EXCEPT
                    !.tasks[i].ctid_val = IF t.set_child_tid # 0 THEN t.tid ELSE @,
                    !.tasks[i].pc = IF ptrs = << >> THEN "ret" ELSE "in_closure",
                    !.boxes = CallAll(@, ptrs),
                    !.log = @ \o [k \in 1 .. Len(ptrs) |-> <<i, ptrs[k]>>]]
    /\ UNCHANGED <<mmvars, thr, us>>

\* The closure returns (it need not): the Box, consumed by the call, is freed.
ClosureReturn(i) ==
    /\ i \in 1 .. Len(rq.tasks) /\ rq.tasks[i].pc = "in_closure"
    /\ rq' = [rq EXCEPT !.tasks[i].pc = "ret",
                        !.boxes = FreeAll(@, task_entry_invokes(rq.tasks[i].entry))]
    /\ UNCHANGED <<mmvars, thr, us>>

\* axhal::arch::ret_from_fork(sp): the task leaves task_entry for good.
RetFromFork(i) ==
    /\ i \in 1 .. Len(rq.tasks) /\ rq.tasks[i].pc = "ret"
    /\ rq' = [rq EXCEPT !.tasks[i].pc = "user"]
    /\ UNCHANGED <<mmvars, thr, us>>

\* A later switch to a task that has run before resumes it where it was
\* switched out; the lock is taken and released around the switch.
Resched(i) ==
    /\ i \in 1 .. Len(rq.tasks) /\ rq.tasks[i].pc \in {"in_closure", "user"}
    /\ ~rq.locked /\ rq.resched < MaxResched
    /\ rq' = [rq EXCEPT !.resched = @ + 1]
    /\ UNCHANGED <<mmvars, thr, us>>

NextRq ==
    \/ \E tid \in Tids, ctid \in CtidPtrs : SpawnTaskRaw(tid, ctid)
    \/ \E tid \in Tids, ctid \in CtidPtrs : SpawnTaskNone(tid, ctid)
    \/ \E i \in 1 .. MaxTasks : FirstSwitch(i)
    \/ \E i \in 1 .. MaxTasks : TaskEntryUnlock(i)
    \/ \E i \in 1 .. MaxTasks : TaskEntryRun(i)
    \/ \E i \in 1 .. MaxTasks : ClosureReturn(i)
    \/ \E i \in 1 .. MaxTasks : RetFromFork(i)
    \/ \E i \in 1 .. MaxTasks : Resched(i)

SpecRq == Init /\ [][NextRq]_vars

\* ------------------------------------------------------------- UserStack
\* us.mem is the memory behind the write pointer, by kernel address; ptr0 is
\* history (the ptr given to new); call is history (the last call made).
\* The element types pushed: <<size_of::<T>(), align_of::<T>()>> of u8, u16, u32.
ElemTypes == { <<1, 1>>, <<2, 2>>, <<4, 4>> }
StackBases == {StackTop - 1, StackTop}
StackPtrs == {StackTop, StackTop + 1}
RECURSIVE SeqsUpTo(_, _)
SeqsUpTo(S, n) ==
    IF n = 0 THEN {<< >>}
    ELSE LET shorter == SeqsUpTo(S, n - 1)
         IN  shorter \cup {Append(q, x) : q \in {r \in shorter : Len(r) = n - 1}, x \in S}
StrArgs == SeqsUpTo(Bytes, MaxStrLen)

UserStack_new(base, ptr) == [base |-> base, sp |-> base, ptr |-> ptr]
UserStack_get_sp(st) == st.sp

\* Variant of push with a slip: the write pointer moves by the size of the
\* data, not by the distance the stack pointer moved.
PushPtrBySize(st, memv, align, bytes) ==
    LET sp1 == st.sp - Len(bytes)
        sp2 == sp1 - (sp1 % align)
        ptr2 == st.ptr - Len(bytes)
    IN  [st |-> [st EXCEPT !.sp = sp2, !.ptr = ptr2],
         mem |-> [a \in (DOMAIN memv) \cup {ptr2 + k - 1 : k \in 1 .. Len(bytes)} |->
                    IF a >= ptr2 /\ a < ptr2 + Len(bytes) THEN bytes[a - ptr2 + 1]
                    ELSE memv[a]]]
\* push(data): bytes are the size_of_val(data) bytes of the slice, align is
\* align_of::<T>(); the result is [st, mem].
UserStack_push(st, memv, align, bytes) ==
    LET origin == st.sp
        sp1 == origin - Len(bytes)
        sp2 == sp1 - (sp1 % align)
        ptr2 == st.ptr - (origin - sp2)
    IN  [st |-> [st EXCEPT !.sp = sp2, !.ptr = ptr2],
         mem |-> [a \in (DOMAIN memv) \cup {ptr2 + k - 1 : k \in 1 .. Len(bytes)} |->
                    IF a >= ptr2 /\ a < ptr2 + Len(bytes) THEN bytes[a - ptr2 + 1]
                    ELSE memv[a]]]

\* push_str(str): the NUL, then the bytes; the result is [st, mem, ret].
UserStack_push_str(st, memv, str) ==
    LET p1 == UserStack_push(st, memv, 1, <<0>>)
        p2 == UserStack_push(p1.st, p1.mem, 1, str)
    IN  [st |-> p2.st, mem |-> p2.mem, ret |-> p2.st.sp]

\* The usize subtractions of push(data) do not wrap.
PushFits(st, align, n) ==
    /\ st.sp >= n
    /\ st.ptr >= n + ((st.sp - n) % align)

StackNew(base, ptr) ==
    /\ ~us.made
    /\ us' = [made |-> TRUE, alive |-> TRUE, st |-> UserStack_new(base, ptr),
              ptr0 |-> ptr, mem |-> EmptyMap, call |-> [op |-> "new"]]
    /\ UNCHANGED <<mmvars, thr, rq>>

\* slice::from_raw_parts_mut(self.ptr as *mut T, ..) with a write pointer that
\* is not a multiple of align_of::<T>() is undefined behaviour: the build
\* either stores the bytes all the same or stops at the pointer check (done =
\* FALSE), after sp and ptr have been moved.
StackPush(ty, n, b, done) ==
    /\ us.made /\ us.alive
    /\ LET bytes == [k \in 1 .. (n * ty[1]) |-> b]
       IN  /\ PushFits(us.st, ty[2], Len(bytes))
           /\ LET r == UserStack_push(us.st, us.mem, ty[2], bytes)
              IN  /\ ~done => r.st.ptr % ty[2] # 0
                  /\ us' = [us EXCEPT !.st = r.st,
                                      !.mem = IF done THEN r.mem ELSE @,
                                      !.alive = done,
                                      !.call = [op |-> "push", align |-> ty[2],
                                                bytes |-> bytes, done |-> done]]
    /\ UNCHANGED <<mmvars, thr, rq>>

StackPushStr(str) ==
    /\ us.made /\ us.alive
    /\ PushFits(us.st, 1, Len(str) + 1)
    /\ LET r == UserStack_push_str(us.st, us.mem, str)
       IN  us' = [us EXCEPT !.st = r.st, !.mem = r.mem,
                            !.call = [op |-> "push_str", str |-> str, ret |-> r.ret]]
    /\ UNCHANGED <<mmvars, thr, rq>>

NextStack ==
    \/ \E base \in StackBases, ptr \in StackPtrs : StackNew(base, ptr)
    \/ \E ty \in ElemTypes, n \in 0 .. MaxElems, b \in Bytes, done \in BOOLEAN :
           StackPush(ty, n, b, done)
    \/ \E str \in StrArgs : StackPushStr(str)

SpecStack == Init /\ [][NextStack]_vars

Next ==
    \/ \E c \in Ctx : NewDrawId(c)
    \/ \E c \in Ctx : NewFinish(c)
    \/ \E c \in Ctx, s \in Slots : DupBegin(c, s)
    \/ \E c \in Ctx : DupPage(c)
    \/ \E c \in Ctx : DupFinish(c)
    \/ \E s \in Slots, a \in MapArgs : MapRegion(s, a)
    \/ \E s \in Slots, a \in UnmapArgs : UnmapRegion(s, a)
    \/ \E s \in Slots : RootPaddr(s)
    \/ \E s \in Slots, b \in BrkArgs : SetBrk(s, b)
    \/ \E s \in Slots, a \in VmaArgs : InsertVma(s, a)
    \/ \E s \in Slots, n \in 0 .. 1 : SetLockedVm(s, n)
    \/ \E s \in Slots, va \in VPages : MapPage(s, va)
    \/ \E s \in Slots, va \in VPages, o \in 0 .. (PageBytes - 1), b \in Bytes :
           WritePage(s, va, o, b)

Spec == Init /\ [][Next]_vars

\* Construction, duplication and the callers' bookkeeping.
NextDup ==
    \/ \E c \in Ctx : NewDrawId(c)
    \/ \E c \in Ctx : NewFinish(c)
    \/ \E c \in Ctx, s \in Slots : DupBegin(c, s)
    \/ \E c \in Ctx : DupPage(c)
    \/ \E c \in Ctx : DupFinish(c)
    \/ \E s \in Slots, b \in BrkArgs : SetBrk(s, b)
    \/ \E s \in Slots, a \in VmaArgs : InsertVma(s, a)
    \/ \E s \in Slots, n \in 0 .. 1 : SetLockedVm(s, n)
    \/ \E s \in Slots, va \in VPages : MapPage(s, va)
    \/ \E s \in Slots, va \in VPages, o \in 0 .. (PageBytes - 1), b \in Bytes :
           WritePage(s, va, o, b)

SpecDup == Init /\ [][NextDup]_vars

\* Construction and the region mapping / unmapping interface.
NextMap ==
    \/ \E c \in Ctx : NewDrawId(c)
    \/ \E c \in Ctx : NewFinish(c)
    \/ \E s \in Slots, a \in MapArgs : MapRegion(s, a)
    \/ \E s \in Slots, a \in UnmapArgs : UnmapRegion(s, a)

SpecMap == Init /\ [][NextMap]_vars

\* Construction, duplication of spaces with materialized pages, and the calls
\* on the page-table root.
NextRoot ==
    \/ \E c \in Ctx : NewDrawId(c)
    \/ \E c \in Ctx : NewFinish(c)
    \/ \E c \in Ctx, s \in Slots : DupBegin(c, s)
    \/ \E c \in Ctx : DupPage(c)
    \/ \E c \in Ctx : DupFinish(c)
    \/ \E s \in Slots, va \in VPages : MapPage(s, va)
    \/ \E s \in Slots, a \in MapArgs : MapRegion(s, a)
    \/ \E s \in Slots, a \in UnmapArgs : UnmapRegion(s, a)
    \/ \E s \in Slots : RootPaddr(s)

SpecRoot == Init /\ [][NextRoot]_vars

\* Construction and duplication with callers that keep the preconditions.
NextVma ==
    \/ \E c \in Ctx : NewDrawId(c)
    \/ \E c \in Ctx : NewFinish(c)
    \/ \E c \in Ctx, s \in Slots : DupBegin(c, s)
    \/ \E c \in Ctx : DupPage(c)
    \/ \E c \in Ctx : DupFinish(c)
    \/ \E s \in Slots, a \in VmaArgs : Mmap(s, a)
    \/ \E s \in Slots, va \in VPages : FaultIn(s, va)
    \/ \E s \in Slots, k \in VPages : Munmap(s, k)

SpecVma == Init /\ [][NextVma]_vars

\* Construction and duplication (by one context) running next to two threads
\* that call map_region, unmap_region and root_paddr step by step.
LockBuilders == {"c1"}
NextLock ==
    \/ \E c \in LockBuilders : NewDrawId(c)
    \/ \E c \in LockBuilders : NewFinish(c)
    \/ \E c \in LockBuilders, s \in Slots : DupBegin(c, s)
    \/ \E c \in LockBuilders : DupPage(c)
    \/ \E c \in LockBuilders : DupFinish(c)
    \/ \E s \in Slots, va \in VPages : MapPage(s, va)
    \/ \E t \in Thr, s \in Slots, q \in LockReqs : LockSpin(t, s, q)
    \/ \E t \in Thr : LockAcquire(t)
    \/ \E t \in Thr : LockBody(t)
    \/ \E t \in Thr : LockDrop(t)

SpecLock == Init /\ [][NextLock]_vars

\* ===================================================================== claims
Content(m, page) == m[FrameOfKVirt(page)]
Injective(f) == \A x, y \in DOMAIN f : x # y => f[x] # f[y]
StrictlyIncreasing(q) == \A i, j \in 1 .. Len(q) : i < j => q[i] < q[j]
HeldIds == {spaces[s].id : s \in Slots} \cup {ctx[c].id : c \in {d \in Ctx : ctx[d].pc = "new_pgd"}}

\* C1: the ids of all address spaces built by new() and deep_dup(), from
\* whatever contexts and in whatever interleaving, are pairwise distinct; the
\* counter starts at 1, stays above every id it handed out (so none is handed
\* out again), and the ids are strictly increasing in the order of the draws.
C1_IdsDistinctIncreasing ==
    /\ nextId >= 1
    /\ (drawn # << >> => drawn[1] = 1)
    /\ StrictlyIncreasing(drawn)
    /\ \A i \in 1 .. Len(drawn) : drawn[i] < nextId
    /\ \A s, u \in Slots : s # u => spaces[s].id # spaces[u].id
    /\ \A c, d \in Ctx : (c # d /\ ctx[c].pc = "new_pgd" /\ ctx[d].pc = "new_pgd")
                            => ctx[c].id # ctx[d].id
    /\ \A s \in Slots, c \in Ctx : ctx[c].pc = "new_pgd" => spaces[s].id # ctx[c].id
    /\ \A x \in HeldIds : \E i \in 1 .. Len(drawn) : drawn[i] = x

\* Three spaces exist, one of them a duplicate, and two calls finished in the
\* opposite order of their draws.
C1_Witness ==
    /\ Len(spaces) >= 3
    /\ \E s \in Slots : spaces[s].origin # 0
    /\ \E s, u \in Slots : s < u /\ spaces[s].id > spaces[u].id

\* C2: when deep_dup returns, the duplicate's ledger has exactly the source's
\* keys, each duplicate page holds the same bytes as the source page at that
\* address, and it is a page of its own: not a page of the source and not the
\* page of any other key of the duplicate.
C2_DupContentEquivalent ==
    last.op = "deep_dup" =>
        LET S == spaces[last.src]
            D == spaces[last.dst]
        IN  /\ DOMAIN D.mapped = DOMAIN S.mapped
            /\ \A va \in DOMAIN D.mapped :
                  /\ va \in DOMAIN S.mapped
                  /\ Content(mem, D.mapped[va]) = Content(mem, S.mapped[va])
                  /\ D.mapped[va] \notin MapValues(S.mapped)
            /\ Injective(D.mapped)

\* A source with two materialized pages of different, non-zero content was
\* duplicated.
C2_Witness ==
    /\ last.op = "deep_dup"
    /\ LET S == spaces[last.src]
       IN  /\ Cardinality(DOMAIN S.mapped) >= 2
           /\ \E va, vb \in DOMAIN S.mapped :
                 /\ Content(mem, S.mapped[va]) # Content(mem, S.mapped[vb])
                 /\ Content(mem, S.mapped[va])[PageBytes - 1] = 1

Related(s, u) == spaces[s].origin = u \/ spaces[u].origin = s

\* C3: a write through a page of a duplicate changes no page of its source,
\* and a write through a page of the source changes no page of its duplicate.
C3_DupIsolation ==
    [][last'.op = "write" =>
          \A u \in Slots : (u # last'.s /\ Related(u, last'.s)) =>
              \A va \in DOMAIN spaces[u].mapped :
                  Content(mem', spaces[u].mapped[va]) = Content(mem, spaces[u].mapped[va])]_vars

\* A byte was written through a duplicate's page and the source's page at the
\* same address now differs from it.
C3_Witness ==
    /\ last.op = "write"
    /\ spaces[last.s].origin # 0
    /\ last.va \in DOMAIN spaces[spaces[last.s].origin].mapped
    /\ Content(mem, spaces[last.s].mapped[last.va])
          # Content(mem, spaces[spaces[last.s].origin].mapped[last.va])

\* C4: when deep_dup returns, the duplicate's VMA map has the source's keys and
\* under each key a VMA with the same start, end, page offset and flags and a
\* handle to the same file object (or none where the source has none).
C4_DupVmasVerbatim ==
    last.op = "deep_dup" =>
        LET S == spaces[last.src]
            D == spaces[last.dst]
        IN  /\ DOMAIN D.vmas = DOMAIN S.vmas
            /\ \A k \in DOMAIN D.vmas :
                  /\ k \in DOMAIN S.vmas
                  /\ D.vmas[k].vm_start = S.vmas[k].vm_start
                  /\ D.vmas[k].vm_end = S.vmas[k].vm_end
                  /\ D.vmas[k].vm_pgoff = S.vmas[k].vm_pgoff
                  /\ D.vmas[k].vm_flags = S.vmas[k].vm_flags
                  /\ D.vmas[k].vm_file = S.vmas[k].vm_file

\* A source with a file-backed VMA and an anonymous VMA was duplicated.
C4_Witness ==
    /\ last.op = "deep_dup"
    /\ \E k, j \in DOMAIN spaces[last.src].vmas :
          /\ spaces[last.src].vmas[k].vm_file # NoFile
          /\ spaces[last.src].vmas[j].vm_file = NoFile

\* C5: when deep_dup returns, the duplicate's brk() and locked_vm equal the
\* source's; a later set_brk on one space leaves the brk() of every other space
\* as it was.
C5_DupBrkLocked ==
    [][/\ last'.op = "deep_dup" =>
            /\ MmStruct_brk(spaces'[last'.dst]) = MmStruct_brk(spaces[last'.src])
            /\ spaces'[last'.dst].locked_vm = spaces[last'.src].locked_vm
            /\ spaces'[last'.src] = spaces[last'.src]
       /\ last'.op = "set_brk" =>
            /\ MmStruct_brk(spaces'[last'.s]) = last'.brk
            /\ \A u \in Slots : u # last'.s =>
                  MmStruct_brk(spaces'[u]) = MmStruct_brk(spaces[u])]_vars

\* set_brk was called on a duplicate whose source had a non-zero break and a
\* non-zero locked-page count; the two breaks now differ.
C5_Witness ==
    /\ last.op = "set_brk"
    /\ spaces[last.s].origin # 0
    /\ LET S == spaces[spaces[last.s].origin]
       IN  /\ MmStruct_brk(S) # 0
           /\ MmStruct_brk(S) # MmStruct_brk(spaces[last.s])
           /\ S.locked_vm # 0
           /\ spaces[last.s].locked_vm = S.locked_vm

\* C6: when deep_dup returns, the duplicate's page table maps exactly the keys
\* of its ledger, each to the physical address of its new page, with
\* READ | WRITE | EXECUTE | USER, whatever the flags of the VMA around it.
C6_DupMappingsFullPermission ==
    last.op = "deep_dup" =>
        LET D == spaces[last.dst]
        IN  /\ DOMAIN D.pgd.ent = DOMAIN D.mapped
            /\ \A va \in DOMAIN D.mapped :
                  /\ va \in DOMAIN D.pgd.ent
                  /\ D.pgd.ent[va].pa = virt_to_phys(D.mapped[va])
                  /\ D.pgd.ent[va].flags = {MF_READ, MF_WRITE, MF_EXECUTE, MF_USER}

\* A page inside a read-only VMA was duplicated.
C6_Witness ==
    /\ last.op = "deep_dup"
    /\ \E va \in DOMAIN spaces[last.dst].mapped, k \in DOMAIN spaces[last.dst].vmas :
          /\ InVma(spaces[last.dst].vmas[k], va)
          /\ spaces[last.dst].vmas[k].vm_flags = VM_READ

\* The source of context c's deep_dup is as the call found it.
SourceAsAtCall(c) ==
    LET s == ctx[c].src
    IN  /\ spaces[s] = ctx[c].snap.mm
        /\ \A va \in DOMAIN spaces[s].mapped :
              Content(mem, spaces[s].mapped[va]) = ctx[c].snap.pages[va]

\* C7: when the allocator has no page for an entry of the ledger, deep_dup
\* stops the kernel there: the call returns nothing, no space is added, the
\* pages copied so far are in no space's ledger, the source is as the call found
\* it, and nothing runs afterwards.
C7_AllocFailureFatal ==
    [][/\ ~panicked
       /\ \A c \in Ctx :
             (/\ ctx[c].pc = "dup_loop" /\ ctx[c].todo # {} /\ nextFrame > NumFrames
              /\ (ctx'[c] # ctx[c] \/ (last'.op = "panic" /\ last'.ctx = c)))
             => /\ panicked'
                /\ last' = [op |-> "panic", ctx |-> c, why |-> "AllocFailed"]
                /\ ctx' = ctx
                /\ spaces' = spaces
                /\ SourceAsAtCall(c)'
                /\ \A u \in Slots : MapValues(spaces'[u].mapped)
                                       \cap MapValues(ctx'[c].mapped) = {}]_vars

\* deep_dup stopped on an exhausted allocator after it had copied a page of
\* non-zero content.
C7_Witness ==
    /\ panicked
    /\ last.op = "panic" /\ last.why = "AllocFailed"
    /\ \E va \in DOMAIN ctx[last.ctx].mapped :
          Content(mem, ctx[last.ctx].mapped[va])[PageBytes - 1] = 1

\* ------------------------------------------------------------- map / unmap
HasBit(x, b) == (x \div b) % 2 = 1
\* The backend flags a caller's intent asks for: READ, WRITE and EXECUTE as
\* the intent has VM_READ, VM_WRITE and VM_EXEC, and USER always.
IntentFlags(uflags) ==
    {MF_USER} \cup (IF HasBit(uflags, VM_READ) THEN {MF_READ} ELSE {})
              \cup (IF HasBit(uflags, VM_WRITE) THEN {MF_WRITE} ELSE {})
              \cup (IF HasBit(uflags, VM_EXEC) THEN {MF_EXECUTE} ELSE {})

\* C8: the flags map_region hands to the backend are READ, WRITE and EXECUTE
\* according to the caller's permission intent, and USER always.
C8_FlagsFollowIntent ==
    last.op = "map_region" =>
        \A i \in 1 .. Len(last.calls) : last.calls[i].flags = IntentFlags(last.uflags)

SameBookkeeping(a, b) ==
    /\ a.vmas = b.vmas /\ a.mapped = b.mapped /\ a.brk = b.brk
    /\ a.locked_vm = b.locked_vm /\ a.id = b.id

\* C9: map_region and unmap_region each make exactly one backend call, with
\* the caller's va, (pa,) len (and allow_overwrite = TRUE), return what that
\* call returns on the space's table, leave the table as that call leaves it,
\* and change neither the VMA set, the ledger, the break, the locked-page count
\* or the id of the space, nor any other space.
C9_PureDelegation ==
    [][/\ last'.op \in {"map_region", "unmap_region"} =>
            /\ Len(last'.calls) = 1
            /\ Len(spaces') = Len(spaces)
            /\ SameBookkeeping(spaces'[last'.s], spaces[last'.s])
            /\ \A u \in Slots : u # last'.s => spaces'[u] = spaces[u]
       /\ last'.op = "map_region" =>
            LET call == last'.calls[1]
                b == PT_map_region(spaces[last'.s].pgd, nextFrame, last'.va, last'.pa,
                                   last'.len, call.flags, TRUE)
            IN  /\ call.fn = "map_region" /\ call.overwrite = TRUE
                /\ call.va = last'.va /\ call.pa = last'.pa /\ call.len = last'.len
                /\ last'.ret = b.res
                /\ spaces'[last'.s].pgd = b.pgd
       /\ last'.op = "unmap_region" =>
            LET call == last'.calls[1]
                b == PT_unmap_region(spaces[last'.s].pgd, last'.va, last'.len)
            IN  /\ call.fn = "unmap_region"
                /\ call.va = last'.va /\ call.len = last'.len
                /\ last'.ret = b.res
                /\ spaces'[last'.s].pgd = b.pgd]_vars

\* unmap_region returned the backend's failure on a space whose table holds a
\* mapping made by an earlier, successful map_region.
C9_Witness ==
    /\ last.op = "unmap_region"
    /\ last.ret = "NotMapped"
    /\ DOMAIN spaces[last.s].pgd.ent # {}
    /\ DOMAIN spaces[last.s].mapped = {}

RtRange(r) == RangePages(r.va, r.len)
RtMapsTo(pt, r, pa) ==
    \A p \in RtRange(r) : p \in DOMAIN pt.ent /\ pt.ent[p].pa = pa + (p - r.va)

\* C10 as stated: every step of a round trip map_region(va, pa1, len),
\* unmap_region(va, len), map_region(va, pa2, len) with page-aligned arguments
\* succeeds, and it ends with va mapped to pa2.
C10_RoundTripAlwaysSucceeds ==
    \A s \in Slots :
        /\ \A i \in 1 .. Len(rt[s].rets) : rt[s].rets[i] = "Ok"
        /\ rt[s].stage = 3 => RtMapsTo(spaces[s].pgd, rt[s], rt[s].pa2)

\* C10, amended: if the first map_region succeeds, then unmap_region succeeds
\* and leaves no entry in the range, and the second map_region succeeds and
\* leaves every page of the range mapped to pa2 (none to pa1).
C10_RoundTripAfterFirstMap ==
    \A s \in Slots :
        (rt[s].stage >= 1 /\ rt[s].rets[1] = "Ok") =>
            /\ rt[s].stage = 1 => RtMapsTo(spaces[s].pgd, rt[s], rt[s].pa1)
            /\ rt[s].stage >= 2 => rt[s].rets[2] = "Ok"
            /\ rt[s].stage = 2 => RtRange(rt[s]) \cap DOMAIN spaces[s].pgd.ent = {}
            /\ rt[s].stage = 3 =>
                  /\ rt[s].rets[3] = "Ok"
                  /\ RtMapsTo(spaces[s].pgd, rt[s], rt[s].pa2)
                  /\ \A p \in RtRange(rt[s]) :
                        spaces[s].pgd.ent[p].pa # rt[s].pa1 + (p - rt[s].va)

\* A round trip over two pages was completed.
C10_Witness ==
    \E s \in Slots :
        /\ rt[s].stage = 3
        /\ rt[s].rets = <<"Ok", "Ok", "Ok">>
        /\ rt[s].len = 2 * PageBytes

\* ------------------------------------------------------- page-table roots
\* C11: a duplicate has a page-table root of its own: root_paddr() of a
\* duplicate and of its source differ, root_paddr() returns the root the space
\* was built with, and a map_region or unmap_region on either of the two
\* leaves every mapping of the other's table as it was.
C11_DupOwnRoot ==
    [][/\ \A s, u \in 1 .. Len(spaces') :
             spaces'[s].origin = u =>
                 MmStruct_root_paddr(spaces'[s]) # MmStruct_root_paddr(spaces'[u])
       /\ last'.op = "root_paddr" =>
             /\ last'.ret = spaces'[last'.s].pgd.root
             /\ \A u \in Slots : (u # last'.s /\ Related(u, last'.s)) =>
                   last'.ret # spaces'[u].pgd.root
       /\ last'.op \in {"map_region", "unmap_region"} =>
             \A u \in Slots : (u # last'.s /\ Related(u, last'.s)) =>
                 spaces'[u].pgd = spaces[u].pgd]_vars

\* unmap_region removed from a duplicate's table the mapping of a page it got
\* from its source, and the source's table still maps that address.
C11_Witness ==
    /\ last.op = "unmap_region" /\ last.ret = "Ok"
    /\ spaces[last.s].origin # 0
    /\ last.va \in DOMAIN spaces[last.s].mapped
    /\ last.va \notin DOMAIN spaces[last.s].pgd.ent
    /\ last.va \in DOMAIN spaces[spaces[last.s].origin].pgd.ent

\* ------------------------------------------------------------------ locking
InCall(t) == thr[t].pc # "idle"
LocksHeldBy(t) == {s \in Slots : t \in Holders(s)}

\* The part of the discipline both statements of C12 share: a table lock has
\* at most one holder; a thread holds a lock only inside a call, and only the
\* lock of the space it called; and whenever a call is under way and the kernel
\* has not stopped, some thread inside a call can take its next step (no
\* thread waits for a lock whose holder cannot go on).
LockBasics ==
    /\ \A s \in Slots : Cardinality(Holders(s)) <= 1
    /\ \A t \in Thr : /\ ~InCall(t) => LocksHeldBy(t) = {}
                      /\ LocksHeldBy(t) \subseteq {thr[t].s}
    /\ (~panicked /\ \E t \in Thr : InCall(t)) => ENABLED LockStep

LedgerInsideVmas(mm) ==
    \A va \in DOMAIN mm.mapped : \E k \in DOMAIN mm.vmas : InVma(mm.vmas[k], va)

KeyedByStart(vmas) == \A k \in DOMAIN vmas : vmas[k].vm_start = k
NonOverlapping(vmas) ==
    \A k, j \in DOMAIN vmas : k # j => Disjoint(vmas[k], vmas[j])

TaskIds == 1 .. Len(rq.tasks)
CallsOf(i) == {k \in 1 .. Len(rq.log) : rq.log[k][1] = i}
PastCall(i) == rq.tasks[i].pc \in {"in_closure", "ret", "user"}

\* C15: the closure given to spawn_task_raw is called exactly once, by its own
\* task, when that task first runs task_entry and after its force_unlock; it is
\* freed once, when the call returns, and never called or freed again however
\* often the task is switched to afterwards; a task spawned without an entry
\* calls nothing.
C15_EntryConsumedOnce ==
    /\ \A b \in 1 .. Len(rq.boxes) :
          /\ rq.boxes[b].calls <= 1
          /\ rq.boxes[b].frees <= rq.boxes[b].calls
          /\ Cardinality({i \in TaskIds : rq.tasks[i].entry = b}) = 1
    /\ \A k \in 1 .. Len(rq.log) : rq.tasks[rq.log[k][1]].entry = rq.log[k][2]
    /\ \A i \in TaskIds :
          LET t == rq.tasks[i]
          IN  /\ t.entry = NoEntry => CallsOf(i) = {}
              /\ t.entry # NoEntry =>
                    /\ Cardinality(CallsOf(i)) = (IF PastCall(i) THEN 1 ELSE 0)
                    /\ rq.boxes[t.entry].calls = (IF PastCall(i) THEN 1 ELSE 0)
                    /\ rq.boxes[t.entry].frees =
                          (IF t.pc \in {"ret", "user"} THEN 1 ELSE 0)
              /\ CallsOf(i) # {} => t.unlocks = 1
              /\ t.unlocks <= 1

\* Two tasks, one spawned with a closure and one without, have both left
\* task_entry and have been switched to again since.
C15_Witness ==
    /\ rq.resched = MaxResched
    /\ \E i, j \in TaskIds :
          /\ rq.tasks[i].entry # NoEntry /\ rq.tasks[j].entry = NoEntry
          /\ rq.tasks[i].pc = "user" /\ rq.tasks[j].pc = "user"
          /\ rq.boxes[rq.tasks[i].entry] = [calls |-> 1, frees |-> 1]

\* ---------------------------------------------------------------- UserStack
\* The kernel address behind the user stack address a.
KernelAddr(u, a) == u.ptr0 - (u.st.base - a)
Lockstep(u) == u.st.base - UserStack_get_sp(u.st) = u.ptr0 - u.st.ptr

\* C16: after new(base, ptr), sp = base; after every push or push_str that
\* does not underflow, base - sp = initial ptr - ptr and sp is not higher than
\* before; a push of a slice of T lowers sp by at least the size of the slice,
\* leaves sp a multiple of align_of::<T>() and (when it completes) stores the
\* slice at the write pointer; push_str returns the new sp, the string's bytes start there and a
\* NUL byte follows them.
C16_StackPushes ==
    [][us' # us =>
         /\ Lockstep(us')
         /\ us'.call.op = "new" => UserStack_get_sp(us'.st) = us'.st.base
         /\ us'.call.op # "new" => UserStack_get_sp(us'.st) <= UserStack_get_sp(us.st)
         /\ us'.call.op = "push" =>
               LET c == us'.call
               IN  /\ us.st.sp - us'.st.sp >= Len(c.bytes)
                   /\ us'.st.sp % c.align = 0
                   /\ c.done => \A k \in 1 .. Len(c.bytes) :
                         us'.mem[KernelAddr(us', us'.st.sp) + k - 1] = c.bytes[k]
         /\ us'.call.op = "push_str" =>
               LET c == us'.call
               IN  /\ c.ret = UserStack_get_sp(us'.st)
                   /\ \A k \in 1 .. Len(c.str) :
                         us'.mem[KernelAddr(us', c.ret) + k - 1] = c.str[k]
                   /\ us'.mem[KernelAddr(us', c.ret) + Len(c.str)] = 0]_vars

\* On a stack with an odd base and a write pointer different from it, a push
\* has left a gap for alignment (a byte above sp that was never written), and
\* a push_str of a two-byte string followed.
C16_Witness ==
    /\ us.made /\ us.call.op = "push_str" /\ Len(us.call.str) = 2
    /\ us.st.base % 2 = 1
    /\ us.st.ptr # us.st.sp
    /\ \E a \in (us.st.sp + 1) .. (us.st.base - 1) : KernelAddr(us, a) \notin DOMAIN us.mem
====
